---- MODULE Spec2Model ----
(***************************************************************************)
(* Ghost-layer (halo) exchange of scmp-3d-mpi.                             *)
(*                                                                         *)
(*   src/src/exchangePDF.cpp     exchangePDF: per component a, gather the  *)
(*                               interleaved field into PDF3d, commit two  *)
(*                               MPI vector datatypes, run six             *)
(*                               MPI_Sendrecv per ghost layer, scatter     *)
(*                               back, free the datatypes.                 *)
(*   src/src/fillGhostLayers.cpp fillGhostLayersMacVar: four calls of      *)
(*                               exchangeDBL (rho, u, v, w).               *)
(*                                                                         *)
(* Every MPI process is one entry of the per-process functions below; the  *)
(* transport is the function net of FIFO message queues, one per ordered   *)
(* pair of ranks.                                                          *)
(***************************************************************************)
EXTENDS Integers, Sequences, FiniteSets, TLC

(* ---------------------------- bounds ---------------------------------- *)
\* largest ghost thickness nn drawn by Init
MaxNN == 2
\* largest number of components Q drawn by Init
MaxQ == 2
\* largest interior extent drawn by Init for the multi-process topologies
MaxM == 2
\* largest interior extent drawn by InitGeom (single process, all geometries)
MaxExt == 4

VARIABLES
    cfg,        \* the arguments of the call and the communicator (never changes)
    PDF4d,      \* PDF4d[p]: the interleaved field of process p
    PDF3d,      \* PDF3d[p]: the scratch array of process p (<<>> when not allocated)
    stridex,    \* stridex[p]: the committed X-normal datatype (NullType when freed)
    stridey,    \* stridey[p]: the committed Y-normal datatype (NullType when freed)
    pc,         \* pc[p]: position of process p in exchangePDF
    a,          \* a[p]: loop variable of "for (int a = 0; a < Q; a++)"
    i,          \* i[p]: loop variable of "for (int i = 0; i < nn; i++)"
    blk,        \* blk[p]: which of the six MPI_Sendrecv blocks (1..6) p is at
    failed,     \* failed[p]: an MPI_Sendrecv of p has failed
    net,        \* net[<<s, d>>]: messages sent by s to d and not yet received
    executed,   \* executed[p][s]: how many times p has completed statement s
    mv,         \* state of fillGhostLayersMacVar (one process)
    returned    \* returned[p]: the field p held when it was called again (<<>> before)

vars == <<cfg, PDF4d, PDF3d, stridex, stridey, pc, a, i, blk, failed, net, executed, mv,
          returned>>

(* ------------------- arguments of exchangePDF ------------------------- *)
nn == cfg.nn
Q  == cfg.Q
MX == cfg.M[1]
MY == cfg.M[2]
MZ == cfg.M[3]

MXP == nn + MX + nn
MYP == nn + MY + nn
MZP == nn + MZ + nn
PADDED_VOXELS == MXP * MYP * MZP

index_3d(x, y, z) == x + y * MXP + z * MXP * MYP
index_4d(comp, idx3) == comp + (idx3 * Q)

\* Mutant of no_xy: the count of a Z-normal transfer is one row of X.
no_xy_OneRow == MXP

no_xy == MXP * MYP

(* --------------------- Cartesian topology ----------------------------- *)
\* The rank MPI gives for "no neighbor" (MPI_Cart_shift off a non-periodic edge).
MPI_PROC_NULL == -1

NProcs == cfg.dims[1] * cfg.dims[2] * cfg.dims[3]
Procs == 0 .. (NProcs - 1)

CartCoords(p) ==
    <<p % cfg.dims[1],
      (p \div cfg.dims[1]) % cfg.dims[2],
      p \div (cfg.dims[1] * cfg.dims[2])>>

CartRank(c) == c[1] + cfg.dims[1] * (c[2] + cfg.dims[2] * c[3])

\* MPI_Cart_shift by disp (+1 or -1) along axis ax (1 = X, 2 = Y, 3 = Z).
CartShift(p, ax, disp) ==
    LET c == CartCoords(p)
        n == c[ax] + disp
        d == cfg.dims[ax]
    IN  IF n >= 0 /\ n < d THEN CartRank([c EXCEPT ![ax] = n])
        ELSE IF cfg.periods[ax] THEN CartRank([c EXCEPT ![ax] = (n + d) % d])
        ELSE MPI_PROC_NULL

nbr_WEST(p)   == CartShift(p, 1, -1)
nbr_EAST(p)   == CartShift(p, 1, 1)
nbr_SOUTH(p)  == CartShift(p, 2, -1)
nbr_NORTH(p)  == CartShift(p, 2, 1)
nbr_BOTTOM(p) == CartShift(p, 3, -1)
nbr_TOP(p)    == CartShift(p, 3, 1)

(* ------------------------ MPI datatypes ------------------------------- *)
NullType == [count |-> 0, blocklength |-> 0, stride |-> 0]

\* MPI_Type_vector(count, blocklength, stride, MPI_DOUBLE, &t)
Type_vector(count, blocklength, stride) ==
    [count |-> count, blocklength |-> blocklength, stride |-> stride]

\* count items of MPI_DOUBLE: count blocks of one element, one after the other.
Contiguous(count) == Type_vector(count, 1, 1)

\* Offsets (in doubles, from the buffer address) of the elements one item of
\* datatype t transfers, in transfer order: block c = 0..count-1 starts at
\* c*stride and holds blocklength consecutive elements.
TypeMap(t) ==
    [n \in 1 .. (t.count * t.blocklength) |->
        ((n - 1) \div t.blocklength) * t.stride + ((n - 1) % t.blocklength)]

\* The position in TypeMap(t) of the element at offset o (0: t does not
\* touch o). Blocks that do not overlap are found by division; otherwise the
\* map is searched and the last position wins, as the last store does.
TypeIndex(t, o) ==
    IF t.blocklength > 0 /\ t.stride >= t.blocklength
    THEN IF o >= 0 /\ (o \div t.stride) < t.count /\ (o % t.stride) < t.blocklength
         THEN (o \div t.stride) * t.blocklength + (o % t.stride) + 1
         ELSE 0
    ELSE LET m == TypeMap(t)
         IN  IF \E n \in DOMAIN m : m[n] = o
             THEN CHOOSE n \in DOMAIN m :
                    m[n] = o /\ \A n2 \in DOMAIN m : m[n2] = o => n2 <= n
             ELSE 0

\* Mutant of StrideXType: the stride counts only one of the two ghost pads.
StrideXType_ShortStride == Type_vector((MY + nn + nn) * (MZ + nn + nn), 1, MX + nn)

\* Mutant of StrideYType: the stride between the runs is MYP*MYP.
StrideYType_SquareStride ==
    Type_vector(MZ + nn + nn, MX + nn + nn, (MY + nn + nn) * (MY + nn + nn))

\* Mutant of StrideXType: the X-normal datatype covers MZ rows of Y only,
\* leaving out the rows of the top ghost layers.
StrideXType_WithoutTopGhost == Type_vector((MY + nn + nn) * (MZ + nn), 1, MX + nn + nn)

\* line 61 and line 66: the arguments of the two MPI_Type_vector calls.
StrideXType == Type_vector((MY + nn + nn) * (MZ + nn + nn), 1, MX + nn + nn)
StrideYType == Type_vector(MZ + nn + nn, MX + nn + nn, (MY + nn + nn) * (MX + nn + nn))

(* ------------------- the six MPI_Sendrecv blocks ---------------------- *)
\* Block k of the ghost-layer loop body, in source order:
\*   1 send TOP / recv BOTTOM     2 send BOTTOM / recv TOP
\*   3 send EAST / recv WEST      4 send WEST / recv EAST
\*   5 send NORTH / recv SOUTH    6 send SOUTH / recv NORTH
Blocks == 1 .. 6

\* Mutant of SendLayer: the block that sends east picks the westmost
\* interior layers instead of the eastmost.
SendLayer_WestForEast(k, l) ==
    CASE k = 1 -> nn + (MZ - 1) - l
      [] k = 2 -> nn + l
      [] k = 3 -> nn + l
      [] k = 4 -> nn + l
      [] k = 5 -> nn + (MY - 1) - l
      [] k = 6 -> nn + l

\* Mutant of SendLayer: the block that sends east starts one layer too far
\* east, at the first east ghost layer.
SendLayer_EastGhost(k, l) ==
    CASE k = 1 -> nn + (MZ - 1) - l
      [] k = 2 -> nn + l
      [] k = 3 -> nn + MX - l
      [] k = 4 -> nn + l
      [] k = 5 -> nn + (MY - 1) - l
      [] k = 6 -> nn + l

\* The layer coordinate (sz, sx or sy) of the slab block k sends at layer l.
SendLayer(k, l) ==
    CASE k = 1 -> nn + (MZ - 1) - l
      [] k = 2 -> nn + l
      [] k = 3 -> nn + (MX - 1) - l
      [] k = 4 -> nn + l
      [] k = 5 -> nn + (MY - 1) - l
      [] k = 6 -> nn + l

\* Mutant of RecvLayer: the receive from the west is off by one layer and
\* lands on the first interior layer.
RecvLayer_OffByOne(k, l) ==
    CASE k = 1 -> (nn - 1) - l
      [] k = 2 -> nn + MZ + l
      [] k = 3 -> nn - l
      [] k = 4 -> nn + MX + l
      [] k = 5 -> (nn - 1) - l
      [] k = 6 -> nn + MY + l

\* Mutant of RecvLayer: the data received from the east is stored into the
\* west ghost layers.
RecvLayer_EastIntoWest(k, l) ==
    CASE k = 1 -> (nn - 1) - l
      [] k = 2 -> nn + MZ + l
      [] k = 3 -> (nn - 1) - l
      [] k = 4 -> (nn - 1) - l
      [] k = 5 -> (nn - 1) - l
      [] k = 6 -> nn + MY + l

\* Mutant of RecvLayer: the receive from the top lands one layer above the
\* top ghost layers.
RecvLayer_AboveTop(k, l) ==
    CASE k = 1 -> (nn - 1) - l
      [] k = 2 -> nn + MZ + l + 1
      [] k = 3 -> (nn - 1) - l
      [] k = 4 -> nn + MX + l
      [] k = 5 -> (nn - 1) - l
      [] k = 6 -> nn + MY + l

\* The layer coordinate (rz, rx or ry) of the slab block k receives into.
RecvLayer(k, l) ==
    CASE k = 1 -> (nn - 1) - l
      [] k = 2 -> nn + MZ + l
      [] k = 3 -> (nn - 1) - l
      [] k = 4 -> nn + MX + l
      [] k = 5 -> (nn - 1) - l
      [] k = 6 -> nn + MY + l

\* "sx + sy * MXP + sz * MXP*MYP" with the two other coordinates 0.
SlabBase(k, lay) ==
    CASE k \in {1, 2} -> index_3d(0, 0, lay)
      [] k \in {3, 4} -> index_3d(lay, 0, 0)
      [] k \in {5, 6} -> index_3d(0, lay, 0)

send(k, l) == SlabBase(k, SendLayer(k, l))
recv(k, l) == SlabBase(k, RecvLayer(k, l))

dest(p, k) ==
    CASE k = 1 -> nbr_TOP(p)
      [] k = 2 -> nbr_BOTTOM(p)
      [] k = 3 -> nbr_EAST(p)
      [] k = 4 -> nbr_WEST(p)
      [] k = 5 -> nbr_NORTH(p)
      [] k = 6 -> nbr_SOUTH(p)

\* Mutant of source: every block receives from the rank it sends to.
source_SameAsDest(p, k) == dest(p, k)

source(p, k) ==
    CASE k = 1 -> nbr_BOTTOM(p)
      [] k = 2 -> nbr_TOP(p)
      [] k = 3 -> nbr_WEST(p)
      [] k = 4 -> nbr_EAST(p)
      [] k = 5 -> nbr_SOUTH(p)
      [] k = 6 -> nbr_NORTH(p)

\* Mutant of sendtag: the westward send reuses the tag of the eastward one.
sendtag_WestAsEast(k) ==
    CASE k = 1 -> 111
      [] k = 2 -> 222
      [] k = 3 -> 333
      [] k = 4 -> 333
      [] k = 5 -> 555
      [] k = 6 -> 666

sendtag(k) ==
    CASE k = 1 -> 111 [] k = 2 -> 222 [] k = 3 -> 333
      [] k = 4 -> 444 [] k = 5 -> 555 [] k = 6 -> 666

recvtag(k) ==
    CASE k = 1 -> 111 [] k = 2 -> 222 [] k = 3 -> 333
      [] k = 4 -> 444 [] k = 5 -> 555 [] k = 6 -> 666

\* Count and datatype of the send leg of block k: (no_xy, MPI_DOUBLE),
\* (1, stridex) or (1, stridey).
SendType(p, k) ==
    CASE k \in {1, 2} -> Contiguous(no_xy)
      [] k \in {3, 4} -> stridex[p]
      [] k \in {5, 6} -> stridey[p]

\* Count and datatype of the receive leg of block k.
RecvType(p, k) ==
    CASE k \in {1, 2} -> Contiguous(no_xy)
      [] k \in {3, 4} -> stridex[p]
      [] k \in {5, 6} -> stridey[p]

(* ------------------------- memory ------------------------------------- *)
\* What "new double[n]" holds before it is written, and what a read outside
\* a buffer gives.
Garbage == -1

Load(buf, addr) == IF addr \in DOMAIN buf THEN buf[addr] ELSE Garbage

\* The elements the send leg of block k picks up at layer l, in order.
Pack(p, k, l) ==
    LET m == TypeMap(SendType(p, k))
    IN  [n \in DOMAIN m |-> Load(PDF3d[p], send(k, l) + m[n])]

\* PDF3d[p] after the receive leg of block k at layer l has stored data:
\* element n of the message goes to &PDF3d[recv] + TypeMap[n]; a message
\* shorter than the datatype fills only its first elements.
Unpack(p, k, l, data) ==
    LET t == RecvType(p, k)
    IN  [x \in DOMAIN PDF3d[p] |->
            LET n == TypeIndex(t, x - recv(k, l))
            IN  IF n # 0 /\ n <= Len(data) THEN data[n] ELSE PDF3d[p][x]]

(* ---------------------- the transport --------------------------------- *)
\* Position of the first message of queue q whose tag is t (0: none); MPI
\* matches a receive with the earliest matching message of the source.
FirstMatch(q, t) ==
    IF \E n \in 1 .. Len(q) : q[n].tag = t
    THEN CHOOSE n \in 1 .. Len(q) :
            /\ q[n].tag = t
            /\ \A m \in 1 .. (n - 1) : q[m].tag # t
    ELSE 0

\* Mutant of Remove: a received message stays in the queue.
Remove_Keep(q, pos) == q

Remove(q, pos) == [n \in 1 .. (Len(q) - 1) |-> IF n < pos THEN q[n] ELSE q[n + 1]]

\* The receive leg of p's current MPI_Sendrecv can complete: its source is
\* MPI_PROC_NULL or a matching message has arrived.
RecvReady(p) ==
    IF source(p, blk[p]) = MPI_PROC_NULL THEN TRUE
    ELSE FirstMatch(net[<<source(p, blk[p]), p>>], recvtag(blk[p])) # 0

\* Process d is blocked in an MPI_Sendrecv whose receive leg matches a
\* message of tag t from s.
RecvPosted(d, s, t) ==
    /\ pc[d] = "wait"
    /\ source(d, blk[d]) = s
    /\ recvtag(blk[d]) = t

\* The send leg of p's current MPI_Sendrecv can complete: nothing is sent to
\* MPI_PROC_NULL; a standard-mode send completes at once when the library
\* buffers the message ("eager"), and when it does not ("sync") only once
\* the destination has posted the matching receive or has taken the message.
SendComplete(p) ==
    IF dest(p, blk[p]) = MPI_PROC_NULL \/ cfg.mode = "eager" THEN TRUE
    ELSE \/ FirstMatch(net[<<p, dest(p, blk[p])>>], sendtag(blk[p])) = 0
         \/ RecvPosted(dest(p, blk[p]), p, sendtag(blk[p]))

(* ------------------- exchangePDF, step by step ------------------------ *)
\* The statements whose executions are counted: the allocation (line 37),
\* the gather loop (43-57), the two MPI_Type_commit (60-67), a returned
\* MPI_Sendrecv, the scatter loop (340-354), the two MPI_Type_free
\* (357-358), the release (363).
Statements == {"new", "gather", "type_commit", "sendrecv", "scatter", "type_free", "delete"}

\* p has completed statement s once more.
Counted(p, s) == executed' = [executed EXCEPT ![p][s] = @ + 1]

\* line 37: double *PDF3d = new double[PADDED_VOXELS]; then the loop test
\* of "for (int a = 0; a < Q; a++)".
New(p) ==
    /\ pc[p] = "new"
    /\ PDF3d' = [PDF3d EXCEPT ![p] = [x \in 0 .. (PADDED_VOXELS - 1) |-> Garbage]]
    /\ a' = [a EXCEPT ![p] = 0]
    /\ pc' = [pc EXCEPT ![p] = IF 0 < Q THEN "gather" ELSE "delete"]
    /\ Counted(p, "new")
    /\ UNCHANGED <<cfg, PDF4d, stridex, stridey, i, blk, failed, net, mv, returned>>

\* Mutant of GatherResult: the gather reads component 0 whatever a is.
GatherResult_Component0(p) ==
    [n \in DOMAIN PDF3d[p] |-> Load(PDF4d[p], index_4d(0, n))]

\* Mutant of GatherResult: the gather reads the field as if its components
\* were stored one after the other instead of interleaved.
GatherResult_Planar(p) ==
    [n \in DOMAIN PDF3d[p] |-> Load(PDF4d[p], a[p] * PADDED_VOXELS + n)]

\* Mutant of GatherResult: the gather reads, for every voxel, the element of
\* the voxel that follows it in the field (cyclically).
GatherResult_NextVoxel(p) ==
    [n \in DOMAIN PDF3d[p] |-> Load(PDF4d[p], index_4d(a[p], (n + 1) % PADDED_VOXELS))]

\* lines 43-57: PDF3d[index_3d] = PDF4d[index_4d] for every padded voxel.
\* The three loops visit x < MXP, y < MYP, z < MZP; element n of PDF3d is
\* written by the iteration whose index_3d is n.
GatherResult(p) ==
    [n \in DOMAIN PDF3d[p] |->
        LET x == n % MXP
            y == (n \div MXP) % MYP
            z == n \div (MXP * MYP)
        IN  IF x < MXP /\ y < MYP /\ z < MZP /\ index_3d(x, y, z) = n
            THEN Load(PDF4d[p], index_4d(a[p], index_3d(x, y, z)))
            ELSE PDF3d[p][n]]

Gather(p) ==
    /\ pc[p] = "gather"
    /\ PDF3d' = [PDF3d EXCEPT ![p] = GatherResult(p)]
    /\ pc' = [pc EXCEPT ![p] = "type_commit"]
    /\ Counted(p, "gather")
    /\ UNCHANGED <<cfg, PDF4d, stridex, stridey, a, i, blk, failed, net, mv, returned>>

\* lines 60-67: MPI_Type_vector and MPI_Type_commit of stridex and stridey,
\* then the loop test of "for (int i = 0; i < nn; i++)".
TypeCommit(p) ==
    /\ pc[p] = "type_commit"
    /\ stridex' = [stridex EXCEPT ![p] = StrideXType]
    /\ stridey' = [stridey EXCEPT ![p] = StrideYType]
    /\ i' = [i EXCEPT ![p] = 0]
    /\ blk' = [blk EXCEPT ![p] = 1]
    /\ pc' = [pc EXCEPT ![p] = IF 0 < nn THEN "sendrecv" ELSE "scatter"]
    /\ Counted(p, "type_commit")
    /\ UNCHANGED <<cfg, PDF4d, PDF3d, a, failed, net, mv, returned>>

\* The message the send leg of p's current block puts on the wire.
Message(p) ==
    [tag |-> sendtag(blk[p]), data |-> Pack(p, blk[p], i[p]),
     a |-> a[p], i |-> i[p], blk |-> blk[p]]

\* MPI_Sendrecv is entered: the send leg is started (the message is on its
\* way to dest, nothing when dest is MPI_PROC_NULL) and the receive is posted.
SendrecvPost(p) ==
    /\ pc[p] = "sendrecv"
    /\ net' = IF dest(p, blk[p]) = MPI_PROC_NULL THEN net
              ELSE [net EXCEPT ![<<p, dest(p, blk[p])>>] = Append(@, Message(p))]
    /\ pc' = [pc EXCEPT ![p] = "wait"]
    /\ UNCHANGED <<cfg, PDF4d, PDF3d, stridex, stridey, a, i, blk, failed, executed, mv,
                   returned>>

\* The receive leg: the matching message of source is stored at &PDF3d[recv]
\* and leaves the queue; a receive from MPI_PROC_NULL returns with the
\* buffer as it was.
Receive(p) ==
    IF source(p, blk[p]) = MPI_PROC_NULL
    THEN UNCHANGED <<PDF3d, net>>
    ELSE LET q   == net[<<source(p, blk[p]), p>>]
             pos == FirstMatch(q, recvtag(blk[p]))
         IN  /\ PDF3d' = [PDF3d EXCEPT ![p] = Unpack(p, blk[p], i[p], q[pos].data)]
             /\ net' = [net EXCEPT ![<<source(p, blk[p]), p>>] = Remove(q, pos)]

\* Mutant of AfterSendrecv: the ghost-layer loop ends after its first pass.
AfterSendrecv_OneLayer(p) ==
    /\ blk' = [blk EXCEPT ![p] = IF blk[p] < 6 THEN blk[p] + 1 ELSE 1]
    /\ i' = [i EXCEPT ![p] = IF blk[p] < 6 THEN i[p] ELSE i[p] + 1]
    /\ pc' = [pc EXCEPT ![p] = IF blk[p] < 6 THEN "sendrecv" ELSE "scatter"]

\* Control after an MPI_Sendrecv returns: the next block, the next ghost
\* layer, or the scatter loop.
AfterSendrecv(p) ==
    /\ blk' = [blk EXCEPT ![p] = IF blk[p] < 6 THEN blk[p] + 1 ELSE 1]
    /\ i' = [i EXCEPT ![p] = IF blk[p] < 6 THEN i[p] ELSE i[p] + 1]
    /\ pc' = [pc EXCEPT ![p] =
                IF blk[p] < 6 \/ i[p] + 1 < nn THEN "sendrecv" ELSE "scatter"]

\* MPI_Sendrecv returns: both legs are complete (the call blocks until then).
SendrecvReturn(p) ==
    /\ pc[p] = "wait"
    /\ RecvReady(p)
    /\ SendComplete(p)
    /\ Receive(p)
    /\ AfterSendrecv(p)
    /\ Counted(p, "sendrecv")
    /\ UNCHANGED <<cfg, PDF4d, stridex, stridey, a, failed, mv, returned>>

\* An MPI_Sendrecv with a real peer fails.  Under MPI_ERRORS_ARE_FATAL the
\* library aborts every process of the communicator.  Under MPI_ERRORS_RETURN
\* the call returns an error code: the statements at lines 127, 166, 205,
\* 244, 283 and 322 discard the value, "status" (line 26) is never read, and
\* control goes on to the next block; the receive buffer is undefined after
\* the failed call (left as it was, or overwritten).
SendrecvFail(p) ==
    /\ pc[p] = "wait"
    /\ ~failed[p]
    /\ dest(p, blk[p]) # MPI_PROC_NULL \/ source(p, blk[p]) # MPI_PROC_NULL
    /\ failed' = [failed EXCEPT ![p] = TRUE]
    /\ IF cfg.errhandler = "MPI_ERRORS_ARE_FATAL"
       THEN /\ pc' = [q \in Procs |-> "aborted"]
            /\ UNCHANGED <<PDF3d, i, blk, executed>>
       ELSE /\ AfterSendrecv(p)
            /\ Counted(p, "sendrecv")
            /\ \E overwritten \in BOOLEAN :
                  PDF3d' = [PDF3d EXCEPT ![p] =
                              IF overwritten
                              THEN Unpack(p, blk[p], i[p],
                                          [n \in DOMAIN TypeMap(RecvType(p, blk[p])) |-> Garbage])
                              ELSE @]
    /\ UNCHANGED <<cfg, PDF4d, stridex, stridey, a, net, mv, returned>>

\* Mutant of ScatterResult: the scatter stores the scratch array in the
\* positions of the component after a (cyclically).
ScatterResult_NextComponent(p) ==
    [m \in DOMAIN PDF4d[p] |->
        IF m % Q = (a[p] + 1) % Q THEN Load(PDF3d[p], m \div Q) ELSE PDF4d[p][m]]

\* lines 340-354: PDF4d[index_4d] = PDF3d[index_3d] for every padded voxel.
ScatterResult(p) ==
    [m \in DOMAIN PDF4d[p] |->
        LET n == m \div Q
            x == n % MXP
            y == (n \div MXP) % MYP
            z == n \div (MXP * MYP)
        IN  IF /\ x < MXP /\ y < MYP /\ z < MZP
               /\ index_4d(a[p], index_3d(x, y, z)) = m
            THEN Load(PDF3d[p], index_3d(x, y, z))
            ELSE PDF4d[p][m]]

Scatter(p) ==
    /\ pc[p] = "scatter"
    /\ PDF4d' = [PDF4d EXCEPT ![p] = ScatterResult(p)]
    /\ pc' = [pc EXCEPT ![p] = "type_free"]
    /\ Counted(p, "scatter")
    /\ UNCHANGED <<cfg, PDF3d, stridex, stridey, a, i, blk, failed, net, mv, returned>>

\* Mutant of TypeFree: the datatypes are not freed at the end of a component.
TypeFree_Leak(p) ==
    /\ pc[p] = "type_free"
    /\ a' = [a EXCEPT ![p] = a[p] + 1]
    /\ pc' = [pc EXCEPT ![p] = IF a[p] + 1 < Q THEN "gather" ELSE "delete"]
    /\ UNCHANGED <<cfg, PDF4d, PDF3d, stridex, stridey, i, blk, failed, net, executed, mv,
                   returned>>

\* lines 357-358: MPI_Type_free of both datatypes, then a++ and the loop test.
TypeFree(p) ==
    /\ pc[p] = "type_free"
    /\ stridex' = [stridex EXCEPT ![p] = NullType]
    /\ stridey' = [stridey EXCEPT ![p] = NullType]
    /\ a' = [a EXCEPT ![p] = a[p] + 1]
    /\ pc' = [pc EXCEPT ![p] = IF a[p] + 1 < Q THEN "gather" ELSE "delete"]
    /\ Counted(p, "type_free")
    /\ UNCHANGED <<cfg, PDF4d, PDF3d, i, blk, failed, net, mv, returned>>

\* Mutant of Delete: the function returns without releasing PDF3d.
Delete_Leak(p) ==
    /\ pc[p] = "delete"
    /\ pc' = [pc EXCEPT ![p] = "done"]
    /\ UNCHANGED <<cfg, PDF4d, PDF3d, stridex, stridey, a, i, blk, failed, net, executed, mv,
                   returned>>

\* line 363: delete [] PDF3d; the function returns.
Delete(p) ==
    /\ pc[p] = "delete"
    /\ PDF3d' = [PDF3d EXCEPT ![p] = <<>>]
    /\ pc' = [pc EXCEPT ![p] = "done"]
    /\ Counted(p, "delete")
    /\ UNCHANGED <<cfg, PDF4d, stridex, stridey, a, i, blk, failed, net, mv, returned>>

\* The caller calls exchangePDF a second time: process p, which has returned
\* from its first call, enters the function again with the field as the
\* first call left it, whatever the other processes are doing.
CallAgain(p) ==
    /\ pc[p] = "done"
    /\ executed[p]["new"] = 1
    /\ returned' = [returned EXCEPT ![p] = PDF4d[p]]
    /\ pc' = [pc EXCEPT ![p] = "new"]
    /\ UNCHANGED <<cfg, PDF4d, PDF3d, stridex, stridey, a, i, blk, failed, net, executed, mv>>

(* ------------------- fillGhostLayersMacVar ---------------------------- *)
\* mv.pc = k in 1..4: about to execute the k-th statement of the body;
\* mv.pc = 5: returned.  mv.active is the field the running exchangeDBL was
\* given ("none": no call is running), mv.log the calls and returns so far,
\* mv.field[f] how many times the ghost layers of field f were rewritten.
MvFields == {"rho", "u", "v", "w"}

\* Mutant of MvField: the third call passes u again.
MvField_UTwice(k) ==
    CASE k = 1 -> "rho"
      [] k = 2 -> "u"
      [] k = 3 -> "u"
      [] k = 4 -> "w"

\* lines 35, 49, 63, 77: the buffer the k-th exchangeDBL call is given.
MvField(k) ==
    CASE k = 1 -> "rho"
      [] k = 2 -> "u"
      [] k = 3 -> "v"
      [] k = 4 -> "w"

\* lines 23-34, 37-48, 51-62, 65-76: the other arguments of the k-th call,
\* each the parameter of fillGhostLayersMacVar of the same name.
MvCallArgs(k) ==
    [nn |-> mv.nn, LX |-> mv.LX, LY |-> mv.LY, LZ |-> mv.LZ, myid |-> mv.myid,
     nbr_WEST |-> mv.nbr_WEST, nbr_EAST |-> mv.nbr_EAST,
     nbr_SOUTH |-> mv.nbr_SOUTH, nbr_NORTH |-> mv.nbr_NORTH,
     nbr_BOTTOM |-> mv.nbr_BOTTOM, nbr_TOP |-> mv.nbr_TOP]

\* The k-th statement of the body: exchangeDBL is called.
MvCall ==
    /\ mv.pc \in 1 .. 4
    /\ mv.active = "none"
    /\ mv' = [mv EXCEPT
                !.active = MvField(mv.pc),
                !.log = Append(@, [ev |-> "call", field |-> MvField(mv.pc),
                                   args |-> MvCallArgs(mv.pc)])]
    /\ UNCHANGED <<cfg, PDF4d, PDF3d, stridex, stridey, pc, a, i, blk, failed, net, executed,
                   returned>>

\* exchangeDBL refreshes the ghost layers of the one field it was given
\* and returns; its arguments are passed by value.
MvExchangeDBL ==
    /\ mv.pc \in 1 .. 4
    /\ mv.active # "none"
    /\ mv' = [mv EXCEPT
                !.field[mv.active] = @ + 1,
                !.log = Append(@, [ev |-> "return", field |-> mv.active]),
                !.active = "none",
                !.pc = @ + 1]
    /\ UNCHANGED <<cfg, PDF4d, PDF3d, stridex, stridey, pc, a, i, blk, failed, net, executed,
                   returned>>

(* ----------------------- initial states ------------------------------- *)
\* PDF4d0(p, m): the value of element m of the field of process p when
\* exchangePDF is entered.
\*   "unique":   every element of every process holds a value of its own;
\*   "rank":     rank 0 holds 7 everywhere, every other rank 3;
\*   "sentinel": as "unique", but the eastmost nn interior layers of rank 0
\*               hold the sentinel 99 in every component.
PDF4d0(p, m) ==
    LET x == (m \div Q) % MXP
    IN  CASE cfg.fill = "rank" -> IF p = 0 THEN 7 ELSE 3
          [] cfg.fill = "sentinel" /\ p = 0 /\ x >= nn /\ x >= MX /\ x < nn + MX
                -> 99
          [] OTHER -> 100000 * (p + 1) + m

FFF == <<FALSE, FALSE, FALSE>>
TTT == <<TRUE, TRUE, TRUE>>

\* One process: every combination of periodic axes (the process is its own
\* neighbor on a periodic axis and has no neighbor on the others).
SingleTopologies ==
    {[dims |-> <<1, 1, 1>>, periods |-> <<bx, by, bz>>] :
        bx \in BOOLEAN, by \in BOOLEAN, bz \in BOOLEAN}

\* Two ranks along one axis: a line without wraparound along X, and two
\* ranks that are each other's neighbor on both sides along X, Y or Z.
PairTopologies ==
    {[dims |-> <<2, 1, 1>>, periods |-> pr] : pr \in {FFF, <<TRUE, FALSE, FALSE>>, TTT}}
    \cup {[dims |-> <<1, 2, 1>>, periods |-> <<FALSE, TRUE, FALSE>>],
          [dims |-> <<1, 1, 2>>, periods |-> <<FALSE, FALSE, TRUE>>]}

\* Three ranks along X: a periodic ring (the west and the east neighbor of
\* a rank are two different ranks) and a line with a boundary at both ends.
RingTopologies ==
    {[dims |-> <<3, 1, 1>>, periods |-> pr] : pr \in {FFF, <<TRUE, FALSE, FALSE>>}}

Cubes(n) == {<<m, m, m>> : m \in 1 .. n}
Boxes(n) == {<<mx, my, mz>> : mx \in 1 .. n, my \in 1 .. n, mz \in 1 .. n}

Config(t, ext, g, q, mode, fill) ==
    [dims |-> t.dims, periods |-> t.periods, M |-> ext, nn |-> g, Q |-> q,
     mode |-> mode, fill |-> fill, errhandler |-> "MPI_ERRORS_ARE_FATAL"]

Modes == {"eager", "sync"}

PeriodicX == [dims |-> <<2, 1, 1>>, periods |-> <<TRUE, FALSE, FALSE>>]

\* The calls Spec explores.
\*   one process:  every box up to MaxM with one component, and the cubes
\*                 with up to MaxQ components, for every periodicity;
\*   two ranks:    the cubes up to MaxM; up to MaxQ components on the
\*                 X-periodic pair and one component on the others;
\*   three ranks:  unit cubes, one ghost layer, one component;
\*   the two scenarios of the specification ("rank" and "sentinel" fill).
Configs ==
    {Config(t, ext, g, 1, "sync", "unique") :
        t \in SingleTopologies, ext \in Boxes(MaxM), g \in 1 .. MaxNN}
    \cup
    {Config(t, ext, g, q, "sync", "unique") :
        t \in SingleTopologies, ext \in Cubes(MaxM), g \in 1 .. MaxNN, q \in 1 .. MaxQ}
    \cup
    {Config(t, ext, g, 1, mode, "unique") :
        t \in PairTopologies, ext \in Cubes(MaxM), g \in 1 .. MaxNN, mode \in Modes}
    \cup
    {Config(PeriodicX, ext, g, q, mode, "unique") :
        ext \in Cubes(MaxM), g \in 1 .. MaxNN, q \in 1 .. MaxQ, mode \in Modes}
    \cup
    {Config(t, <<1, 1, 1>>, 1, 1, mode, "unique") : t \in RingTopologies, mode \in Modes}
    \cup
    {Config([dims |-> <<2, 1, 1>>, periods |-> FFF], <<2, 2, 2>>, 1, 1, mode, "rank") :
        mode \in Modes}
    \cup
    {Config(PeriodicX, <<2, 2, 2>>, g, q, "sync", "sentinel") :
        g \in 1 .. MaxNN, q \in 1 .. MaxQ}

\* The calls SpecGeom explores: one process, without neighbors or its own
\* neighbor on all six sides, every box up to MaxExt (MX = 4, MY = 3, MZ = 2
\* is one of them), one component.
GeomConfigs ==
    {Config([dims |-> <<1, 1, 1>>, periods |-> pr], ext, g, 1, "sync", "unique") :
        pr \in {FFF, TTT}, ext \in Boxes(MaxExt), g \in 1 .. MaxNN}

\* The calls SpecFail explores: the error handler attached to CART_COMM is
\* the default MPI_ERRORS_ARE_FATAL or MPI_ERRORS_RETURN; one process that is
\* its own neighbor along X or along all axes, and the X-periodic pair.
ErrHandlers == {"MPI_ERRORS_ARE_FATAL", "MPI_ERRORS_RETURN"}

FailConfigs ==
    {[Config([dims |-> <<1, 1, 1>>, periods |-> pr], ext, g, q, "sync", "unique")
        EXCEPT !.errhandler = h] :
        pr \in {<<TRUE, FALSE, FALSE>>, TTT}, ext \in Cubes(MaxM),
        g \in 1 .. MaxNN, q \in 1 .. MaxQ, h \in ErrHandlers}
    \cup
    {[Config(PeriodicX, <<1, 1, 1>>, 1, 1, mode, "unique") EXCEPT !.errhandler = h] :
        mode \in Modes, h \in ErrHandlers}

\* The calls SpecContract explores: one process, extents from 0, nn from 0
\* and Q from 0, so that calls inside and outside the contract both occur.
ContractConfigs ==
    {Config(t, <<mx, my, mz>>, g, q, "sync", "unique") :
        t \in {[dims |-> <<1, 1, 1>>, periods |-> pr] : pr \in {FFF, TTT}},
        mx \in 0 .. 1, my \in 0 .. 1, mz \in 0 .. 1,
        g \in 0 .. MaxNN, q \in 0 .. MaxQ}

\* The calls SpecMacVar explores: one process with every combination of
\* periodic axes, every box up to MaxM, nn up to MaxNN.
MacVarConfigs ==
    {Config(t, ext, g, 1, "sync", "unique") :
        t \in SingleTopologies, ext \in Boxes(MaxM), g \in 1 .. MaxNN}

\* fillGhostLayersMacVar is not running.
MvIdle == [pc |-> 0]

\* Every process is about to execute the first statement of exchangePDF.
InitCall ==
    /\ PDF4d = [p \in Procs |->
                  [m \in 0 .. (PADDED_VOXELS * Q - 1) |-> PDF4d0(p, m)]]
    /\ PDF3d = [p \in Procs |-> <<>>]
    /\ stridex = [p \in Procs |-> NullType]
    /\ stridey = [p \in Procs |-> NullType]
    /\ pc = [p \in Procs |-> "new"]
    /\ a = [p \in Procs |-> 0]
    /\ i = [p \in Procs |-> 0]
    /\ blk = [p \in Procs |-> 1]
    /\ failed = [p \in Procs |-> FALSE]
    /\ net = [c \in Procs \X Procs |-> <<>>]
    /\ executed = [p \in Procs |-> [s \in Statements |-> 0]]
    /\ returned = [p \in Procs |-> <<>>]

Init ==
    /\ cfg \in Configs
    /\ InitCall
    /\ mv = MvIdle

Next ==
    \/ \E p \in Procs : New(p)
    \/ \E p \in Procs : Gather(p)
    \/ \E p \in Procs : TypeCommit(p)
    \/ \E p \in Procs : SendrecvPost(p)
    \/ \E p \in Procs : SendrecvReturn(p)
    \/ \E p \in Procs : Scatter(p)
    \/ \E p \in Procs : TypeFree(p)
    \/ \E p \in Procs : Delete(p)

Spec == Init /\ [][Next]_vars

InitGeom ==
    /\ cfg \in GeomConfigs
    /\ InitCall
    /\ mv = MvIdle

SpecGeom == InitGeom /\ [][Next]_vars

\* fillGhostLayersMacVar is entered with the caller's arguments;
\* exchangePDF is not running.
InitMacVar ==
    /\ cfg \in MacVarConfigs
    /\ PDF4d = [p \in Procs |-> <<>>]
    /\ PDF3d = [p \in Procs |-> <<>>]
    /\ stridex = [p \in Procs |-> NullType]
    /\ stridey = [p \in Procs |-> NullType]
    /\ pc = [p \in Procs |-> "done"]
    /\ a = [p \in Procs |-> 0]
    /\ i = [p \in Procs |-> 0]
    /\ blk = [p \in Procs |-> 1]
    /\ failed = [p \in Procs |-> FALSE]
    /\ net = [c \in Procs \X Procs |-> <<>>]
    /\ executed = [p \in Procs |-> [s \in Statements |-> 0]]
    /\ returned = [p \in Procs |-> <<>>]
    /\ mv = [pc |-> 1, nn |-> nn, LX |-> MX, LY |-> MY, LZ |-> MZ, myid |-> 0,
             nbr_WEST |-> nbr_WEST(0), nbr_EAST |-> nbr_EAST(0),
             nbr_SOUTH |-> nbr_SOUTH(0), nbr_NORTH |-> nbr_NORTH(0),
             nbr_BOTTOM |-> nbr_BOTTOM(0), nbr_TOP |-> nbr_TOP(0),
             active |-> "none", log |-> <<>>,
             field |-> [f \in MvFields |-> 0]]

NextMacVar ==
    \/ MvCall
    \/ MvExchangeDBL

SpecMacVar == InitMacVar /\ [][NextMacVar]_vars

InitFail ==
    /\ cfg \in FailConfigs
    /\ InitCall
    /\ mv = MvIdle

NextFail ==
    \/ Next
    \/ \E p \in Procs : SendrecvFail(p)

SpecFail == InitFail /\ [][NextFail]_vars

InitContract ==
    /\ cfg \in ContractConfigs
    /\ InitCall
    /\ mv = MvIdle

SpecContract == InitContract /\ [][Next]_vars

\* The number of processes of the Cartesian communicator of call c.
CommSize(c) == c.dims[1] * c.dims[2] * c.dims[3]

\* The calls SpecSerial explores: those of Configs made by a single process,
\* which has no neighbor or is its own neighbor along the periodic axes.
SerialConfigs == {c \in Configs : CommSize(c) = 1}

InitSerial ==
    /\ cfg \in SerialConfigs
    /\ InitCall
    /\ mv = MvIdle

SpecSerial == InitSerial /\ [][Next]_vars

\* The calls SpecParallel explores: those of Configs made by two or three
\* processes, in every interleaving of their statements.
ParallelConfigs == {c \in Configs : CommSize(c) > 1}

InitParallel ==
    /\ cfg \in ParallelConfigs
    /\ InitCall
    /\ mv = MvIdle

SpecParallel == InitParallel /\ [][Next]_vars

\* The calls SpecSchedule explores: those of ParallelConfigs that exchange
\* one component, with synchronous and with buffered sends.
ScheduleConfigs == {c \in ParallelConfigs : c.Q = 1}

InitSchedule ==
    /\ cfg \in ScheduleConfigs
    /\ InitCall
    /\ mv = MvIdle

SpecSchedule == InitSchedule /\ [][Next]_vars

\* The calls SpecComponents explores: those of Configs with two or more
\* components in which every element of every process holds a value of its
\* own on entry, so that a value tells the element it was read from.
ComponentConfigs == {c \in Configs : c.Q > 1 /\ c.fill = "unique"}

InitComponents ==
    /\ cfg \in ComponentConfigs
    /\ InitCall
    /\ mv = MvIdle

SpecComponents == InitComponents /\ [][Next]_vars

\* The calls SpecAgain explores: those of Configs with one component in
\* which every element holds a value of its own on entry; every process
\* makes the call twice.
AgainConfigs == {c \in Configs : c.Q = 1 /\ c.fill = "unique"}

InitAgain ==
    /\ cfg \in AgainConfigs
    /\ InitCall
    /\ mv = MvIdle

NextAgain ==
    \/ Next
    \/ \E p \in Procs : CallAgain(p)

SpecAgain == InitAgain /\ [][NextAgain]_vars

(* ---------------------- vocabulary of the properties ---------------------- *)
\* Every process has returned from exchangePDF.
Done == \A p \in Procs : pc[p] = "done"

\* One step of process p.
Step(p) ==
    \/ New(p) \/ Gather(p) \/ TypeCommit(p) \/ SendrecvPost(p)
    \/ SendrecvReturn(p) \/ Scatter(p) \/ TypeFree(p) \/ Delete(p)

Axes == 1 .. 3
Ext(ax) == cfg.M[ax]
Interior(ax) == nn .. (nn + Ext(ax) - 1)
Padded(ax) == 0 .. (nn + Ext(ax) + nn - 1)
Other1(ax) == IF ax = 1 THEN 2 ELSE 1
Other2(ax) == IF ax = 3 THEN 2 ELSE 3

\* index_3d of the voxel whose coordinate along ax is lay and whose two
\* other coordinates, in axis order, are u and v.
Voxel(ax, lay, u, v) ==
    CASE ax = 1 -> index_3d(lay, u, v)
      [] ax = 2 -> index_3d(u, lay, v)
      [] ax = 3 -> index_3d(u, v, lay)

\* The neighbor of p on the low side (west, south, bottom) and on the high
\* side (east, north, top) of axis ax.
Lo(p, ax) == CASE ax = 1 -> nbr_WEST(p) [] ax = 2 -> nbr_SOUTH(p) [] ax = 3 -> nbr_BOTTOM(p)
Hi(p, ax) == CASE ax = 1 -> nbr_EAST(p) [] ax = 2 -> nbr_NORTH(p) [] ax = 3 -> nbr_TOP(p)

Min(x, y) == IF x < y THEN x ELSE y

\* The value component comp of voxel n of process p holds now / held at entry.
Now(p, comp, n) == PDF4d[p][index_4d(comp, n)]
Before(p, comp, n) == PDF4d0(p, index_4d(comp, n))

\* At ghost depth l along axis ax: the low ghost layer nn-1-l of p holds
\* what the layer nn+M-1-l of its low neighbor held at entry, and the high
\* ghost layer nn+M+l what the layer nn+l of its high neighbor held, on the
\* cells interior in the two other axes.
GhostFromNeighbor(p, ax, l) ==
    /\ (Lo(p, ax) # MPI_PROC_NULL /\ Hi(Lo(p, ax), ax) = p) =>
          \A comp \in 0 .. (Q - 1), u \in Interior(Other1(ax)), v \in Interior(Other2(ax)) :
             Now(p, comp, Voxel(ax, nn - 1 - l, u, v))
               = Before(Lo(p, ax), comp, Voxel(ax, nn + Ext(ax) - 1 - l, u, v))
    /\ (Hi(p, ax) # MPI_PROC_NULL /\ Lo(Hi(p, ax), ax) = p) =>
          \A comp \in 0 .. (Q - 1), u \in Interior(Other1(ax)), v \in Interior(Other2(ax)) :
             Now(p, comp, Voxel(ax, nn + Ext(ax) + l, u, v))
               = Before(Hi(p, ax), comp, Voxel(ax, nn + l, u, v))

Blocked(p) == pc[p] = "wait" /\ ~(RecvReady(p) /\ SendComplete(p))

\* C2: as long as some process has not returned from exchangePDF, some
\* process can take a step: no reachable state has every unfinished process
\* blocked in an MPI_Sendrecv, whatever the interleaving and whether the
\* library buffers the sends or not.
C2_NoDeadlock == Done \/ \E p \in Procs : pc[p] # "done" /\ ~Blocked(p)

\* The three ranks of the periodic ring are all blocked in the MPI_Sendrecv
\* that sends east and receives from the west, with unbuffered sends.
C2_Witness ==
    /\ NProcs = 3 /\ cfg.periods[1] /\ cfg.mode = "sync"
    /\ \A p \in Procs : pc[p] = "wait" /\ blk[p] = 3

(* ------------------------------ C3 ------------------------------------ *)
\* C3: at every moment of the call, and so when it returns, every interior
\* voxel of every component of every process holds the value it held when
\* exchangePDF was entered.
C3_InteriorUntouched ==
    \A p \in Procs, comp \in 0 .. (Q - 1) :
        \A x \in Interior(1), y \in Interior(2), z \in Interior(3) :
            Now(p, comp, index_3d(x, y, z)) = Before(p, comp, index_3d(x, y, z))

\* All processes have returned, two ranks exchanged two ghost layers of two
\* components, and a ghost value of rank 0 did change.
C3_Witness ==
    /\ Done /\ NProcs = 2 /\ nn = 2 /\ Q = 2
    /\ \E m \in DOMAIN PDF4d[0] : PDF4d[0][m] # PDF4d0(0, m)

(* ------------------------------ C4 ------------------------------------ *)
\* All six neighbors of p are MPI_PROC_NULL.
NoNeighbors(p) == \A ax \in Axes : Lo(p, ax) = MPI_PROC_NULL /\ Hi(p, ax) = MPI_PROC_NULL

\* C4: a process whose six neighbors are all "no neighbor" is never blocked
\* before it returns, and its whole field (ghost layers and interior, all
\* components) is what it was when exchangePDF was entered.
C4_NoNeighborsIdentity ==
    \A p \in Procs :
        NoNeighbors(p) =>
            /\ pc[p] = "done" \/ ENABLED Step(p)
            /\ pc[p] = "done" => \A m \in DOMAIN PDF4d[p] : PDF4d[p][m] = PDF4d0(p, m)

\* A process without neighbors has returned from a call with two ghost
\* layers, two components and 2x2x2 interior voxels.
C4_Witness ==
    /\ NoNeighbors(0) /\ pc[0] = "done"
    /\ nn = 2 /\ Q = 2 /\ cfg.M = <<2, 2, 2>>

(* ------------------------------ C5 ------------------------------------ *)
\* The voxel (x, y, z) lies in a ghost layer of p on a side of axis ax that
\* has no neighbor / that has a neighbor.
Coord(x, y, z, ax) == CASE ax = 1 -> x [] ax = 2 -> y [] ax = 3 -> z

InGhostOfSide(p, x, y, z, ax, withNeighbor) ==
    \/ /\ Coord(x, y, z, ax) < nn
       /\ (Lo(p, ax) # MPI_PROC_NULL) = withNeighbor
    \/ /\ Coord(x, y, z, ax) >= nn + Ext(ax)
       /\ (Hi(p, ax) # MPI_PROC_NULL) = withNeighbor

Unchanged(p, x, y, z) ==
    \A comp \in 0 .. (Q - 1) :
        Now(p, comp, index_3d(x, y, z)) = Before(p, comp, index_3d(x, y, z))

\* C5 as stated: after the exchange every cell of every ghost layer on a
\* no-neighbor side, taken as the full padded slab (edge and corner cells
\* included), holds its initial value.
C5_FullSlabUnchanged ==
    Done => \A p \in Procs, x \in Padded(1), y \in Padded(2), z \in Padded(3) :
                (\E ax \in Axes : InGhostOfSide(p, x, y, z, ax, FALSE))
                    => Unchanged(p, x, y, z)

\* C5 (amended): after the exchange every cell of a ghost layer on a
\* no-neighbor side that does not also lie in a ghost layer of a side with a
\* neighbor holds its initial value.
C5_NoNeighborGhostUnchanged ==
    Done => \A p \in Procs, x \in Padded(1), y \in Padded(2), z \in Padded(3) :
                ( /\ \E ax \in Axes : InGhostOfSide(p, x, y, z, ax, FALSE)
                  /\ ~ \E ax \in Axes : InGhostOfSide(p, x, y, z, ax, TRUE) )
                    => Unchanged(p, x, y, z)

\* The scenario of the specification: 2x1x1 process grid, MX = MY = MZ = 2,
\* nn = 1, Q = 1, rank 0 filled with 7 and rank 1 with 3. After the exchange
\* the east ghost layer of rank 0 holds 3 and the west ghost layer of rank 1
\* holds 7 (cells interior in Y and Z), and a south ghost cell of rank 0 that
\* is interior in X still holds 7.
C5_Witness ==
    /\ Done /\ cfg.fill = "rank" /\ cfg.dims = <<2, 1, 1>>
    /\ nbr_WEST(0) = MPI_PROC_NULL /\ nbr_EAST(0) = 1
    /\ \A y \in Interior(2), z \in Interior(3) :
          /\ Now(0, 0, index_3d(nn + MX, y, z)) = 3
          /\ Now(1, 0, index_3d(nn - 1, y, z)) = 7
    /\ \A x \in Interior(1), z \in Interior(3) : Now(0, 0, index_3d(x, 0, z)) = 7

(* ------------------------------ C6 ------------------------------------ *)
\* The addresses one item of datatype t selects at base address base.
Selected(t, base) == {base + TypeMap(t)[n] : n \in DOMAIN TypeMap(t)}

\* The datatypes of p are committed.
Committed(p) == pc[p] \in {"sendrecv", "wait", "scatter", "type_free"}

\* C6: the committed X-normal datatype, applied at index_3d(x,0,0) for any x
\* in 0..MXP-1, selects exactly the addresses index_3d(x,j,k), 0 <= j < MYP,
\* 0 <= k < MZP, found by enumerating index_3d, each once; for MX = 4, MY = 3,
\* MZ = 2, nn = 1 these are 20 elements spaced 6 apart.
C6_XDescriptor ==
    \A p \in Procs :
        Committed(p) =>
            /\ \A x \in 0 .. (MXP - 1) :
                  /\ Selected(stridex[p], index_3d(x, 0, 0))
                       = {index_3d(x, j, k) : j \in 0 .. (MYP - 1), k \in 0 .. (MZP - 1)}
                  /\ Cardinality(Selected(stridex[p], index_3d(x, 0, 0)))
                       = Len(TypeMap(stridex[p]))
            /\ Len(TypeMap(stridex[p])) = MYP * MZP
            /\ (cfg.M = <<4, 3, 2>> /\ nn = 1) =>
                  /\ Len(TypeMap(stridex[p])) = 20
                  /\ \A n \in 1 .. 19 :
                        TypeMap(stridex[p])[n + 1] - TypeMap(stridex[p])[n] = 6

\* With MX = 4, MY = 3, MZ = 2, nn = 1 the process is inside the MPI_Sendrecv
\* that sends east with the X-normal datatype, which selects 20 elements.
C6_Witness ==
    /\ cfg.M = <<4, 3, 2>> /\ nn = 1
    /\ pc[0] = "wait" /\ blk[0] = 3
    /\ Len(TypeMap(stridex[0])) = 20
    /\ Cardinality(Selected(stridex[0], send(3, 0))) = 20

(* ------------------------------ C7 ------------------------------------ *)
\* C7: the committed Y-normal datatype, applied at index_3d(0,y,0) for any y
\* in 0..MYP-1, selects exactly the addresses index_3d(x,y,k), 0 <= x < MXP,
\* 0 <= k < MZP, found by enumerating index_3d, each once; for MX = 4, MY = 3,
\* MZ = 2, nn = 1 these are 4 contiguous runs of length 6 spaced 30 apart.
C7_YDescriptor ==
    \A p \in Procs :
        Committed(p) =>
            /\ \A y \in 0 .. (MYP - 1) :
                  /\ Selected(stridey[p], index_3d(0, y, 0))
                       = {index_3d(x, y, k) : x \in 0 .. (MXP - 1), k \in 0 .. (MZP - 1)}
                  /\ Cardinality(Selected(stridey[p], index_3d(0, y, 0)))
                       = Len(TypeMap(stridey[p]))
            /\ Len(TypeMap(stridey[p])) = MXP * MZP
            /\ (cfg.M = <<4, 3, 2>> /\ nn = 1) =>
                  /\ Len(TypeMap(stridey[p])) = 24
                  /\ \A r \in 0 .. 3, b \in 0 .. 5 :
                        TypeMap(stridey[p])[r * 6 + b + 1] = r * 30 + b

\* With MX = 4, MY = 3, MZ = 2, nn = 1 the process is inside the MPI_Sendrecv
\* that sends north with the Y-normal datatype, which selects 4 runs of 6.
C7_Witness ==
    /\ cfg.M = <<4, 3, 2>> /\ nn = 1
    /\ pc[0] = "wait" /\ blk[0] = 5
    /\ stridey[0].count = 4 /\ stridey[0].blocklength = 6 /\ stridey[0].stride = 30
    /\ Cardinality(Selected(stridey[0], send(5, 0))) = 24

(* ------------------------------ C8 ------------------------------------ *)
\* C8: a process one of whose paired exchanges has failed does not go on:
\* it is aborted; it is never at a later paired exchange, at the scatter, at
\* a later component, or returned.
C8_FailureAborts == \A p \in Procs : failed[p] => pc[p] = "aborted"

\* Under the default error handler the failure does abort the processes.
C8_FatalHandlerAborts ==
    cfg.errhandler = "MPI_ERRORS_ARE_FATAL" =>
        \A p \in Procs : failed[p] => pc[p] = "aborted"

\* After a failed exchange the process has returned from exchangePDF.
C8_ReturnedAfterFailure == \E p \in Procs : failed[p] /\ pc[p] = "done"

(* ------------------------------ C9 ------------------------------------ *)
\* The call violates the contract: an extent below 1, nn < 1 or Q < 1.
ContractViolated == MX < 1 \/ MY < 1 \/ MZ < 1 \/ nn < 1 \/ Q < 1

\* C9: a call that violates the contract gets no further than its first
\* statement: no scratch buffer is allocated, no datatype is committed,
\* nothing is sent, the field is as it was, and the call does not return
\* normally.
C9_ViolationRejected ==
    ContractViolated =>
        \A p \in Procs :
            /\ pc[p] = "new"
            /\ PDF3d[p] = <<>>
            /\ stridex[p] = NullType /\ stridey[p] = NullType
            /\ \A n \in DOMAIN PDF4d[p] : PDF4d[p][n] = PDF4d0(p, n)

\* A call with nn = 0 has returned normally.
C9_ReturnedDespiteViolation == ContractViolated /\ nn = 0 /\ Q = 1 /\ Done

(* ------------------------------ C10 ----------------------------------- *)
\* The arguments fillGhostLayersMacVar was called with.
MvCallerArgs ==
    [nn |-> nn, LX |-> MX, LY |-> MY, LZ |-> MZ, myid |-> 0,
     nbr_WEST |-> nbr_WEST(0), nbr_EAST |-> nbr_EAST(0),
     nbr_SOUTH |-> nbr_SOUTH(0), nbr_NORTH |-> nbr_NORTH(0),
     nbr_BOTTOM |-> nbr_BOTTOM(0), nbr_TOP |-> nbr_TOP(0)]

\* The calls and returns of a complete run, in order.
MvExpectedLog ==
    <<[ev |-> "call", field |-> "rho", args |-> MvCallerArgs],
      [ev |-> "return", field |-> "rho"],
      [ev |-> "call", field |-> "u", args |-> MvCallerArgs],
      [ev |-> "return", field |-> "u"],
      [ev |-> "call", field |-> "v", args |-> MvCallerArgs],
      [ev |-> "return", field |-> "v"],
      [ev |-> "call", field |-> "w", args |-> MvCallerArgs],
      [ev |-> "return", field |-> "w"]>>

\* C10: the calls and returns of fillGhostLayersMacVar so far are always a
\* prefix of: call exchangeDBL for rho, it returns, call for u, it returns,
\* call for v, it returns, call for w, it returns, every call with the
\* caller's unchanged arguments; when fillGhostLayersMacVar has returned
\* they are exactly these four calls; and a field has been rewritten only
\* by a call that was given it, once per call.
C10_FourCallsInOrder ==
    /\ Len(mv.log) <= 8
    /\ \A n \in 1 .. Len(mv.log) : mv.log[n] = MvExpectedLog[n]
    /\ mv.pc = 5 => mv.log = MvExpectedLog
    /\ \A f \in MvFields :
          mv.field[f] = Cardinality({n \in 1 .. Len(mv.log) :
                                      mv.log[n] = [ev |-> "return", field |-> f]})

\* fillGhostLayersMacVar has returned from a call with two ghost layers and
\* itself as west and east neighbor: four calls were made and each of the
\* four fields was rewritten once.
C10_Witness ==
    /\ mv.pc = 5
    /\ Len(mv.log) = 8
    /\ mv.nn = 2 /\ mv.nbr_WEST = 0 /\ mv.nbr_SOUTH = MPI_PROC_NULL
    /\ \A f \in MvFields : mv.field[f] = 1

(* ------------------------------ C11 ----------------------------------- *)
\* The side block k sends to and the side it receives from: 1 top/bottom,
\* 2 bottom/top, 3 east/west, 4 west/east, 5 north/south, 6 south/north.
BlockOrder(p) ==
    /\ dest(p, 1) = nbr_TOP(p) /\ source(p, 1) = nbr_BOTTOM(p)
    /\ dest(p, 2) = nbr_BOTTOM(p) /\ source(p, 2) = nbr_TOP(p)
    /\ dest(p, 3) = nbr_EAST(p) /\ source(p, 3) = nbr_WEST(p)
    /\ dest(p, 4) = nbr_WEST(p) /\ source(p, 4) = nbr_EAST(p)
    /\ dest(p, 5) = nbr_NORTH(p) /\ source(p, 5) = nbr_SOUTH(p)
    /\ dest(p, 6) = nbr_SOUTH(p) /\ source(p, 6) = nbr_NORTH(p)

\* C11: at every point of the call the statements a process has completed
\* are those the fixed order prescribes.  At the gather of component a the
\* process has completed a gathers, a descriptor builds, 6*nn*a paired
\* exchanges, a scatters and a releases; at block blk of layer i of
\* component a it has completed 6*nn*a + 6*i + (blk-1) paired exchanges (the
\* exchanges run in the order of a, then i, then the block, blocks 1..6
\* being bottom/top, west/east, south/north twice each); the scatter of
\* component a starts only with all 6*nn*(a+1) exchanges completed and a
\* scatters done; and the process returns only with Q gathers, 6*nn*Q
\* exchanges and Q scatters completed.
C11_FixedOrder ==
    \A p \in Procs :
        LET e == executed[p]
        IN  /\ BlockOrder(p)
            /\ pc[p] = "gather" =>
                  /\ a[p] < Q
                  /\ e.gather = a[p] /\ e.type_commit = a[p]
                  /\ e.sendrecv = 6 * nn * a[p]
                  /\ e.scatter = a[p] /\ e.type_free = a[p]
            /\ pc[p] = "type_commit" =>
                  /\ e.gather = a[p] + 1 /\ e.type_commit = a[p]
                  /\ e.sendrecv = 6 * nn * a[p]
            /\ pc[p] \in {"sendrecv", "wait"} =>
                  /\ i[p] \in 0 .. (nn - 1) /\ blk[p] \in Blocks
                  /\ e.gather = a[p] + 1 /\ e.type_commit = a[p] + 1
                  /\ e.sendrecv = 6 * nn * a[p] + 6 * i[p] + (blk[p] - 1)
                  /\ e.scatter = a[p] /\ e.type_free = a[p]
            /\ pc[p] = "scatter" =>
                  /\ e.sendrecv = 6 * nn * (a[p] + 1)
                  /\ e.gather = a[p] + 1 /\ e.scatter = a[p]
            /\ pc[p] = "type_free" =>
                  /\ e.sendrecv = 6 * nn * (a[p] + 1)
                  /\ e.scatter = a[p] + 1 /\ e.type_free = a[p]
            /\ pc[p] = "done" =>
                  /\ e.gather = Q /\ e.type_commit = Q
                  /\ e.sendrecv = 6 * nn * Q
                  /\ e.scatter = Q /\ e.type_free = Q

\* Two ranks, two ghost layers, two components: rank 0 has returned after
\* 24 paired exchanges while rank 1 is still scattering its second
\* component.
C11_Witness ==
    /\ NProcs = 2 /\ nn = 2 /\ Q = 2
    /\ pc[0] = "done" /\ executed[0].sendrecv = 24 /\ executed[0].scatter = 2
    /\ pc[1] = "scatter" /\ a[1] = 1

(* ------------------------------ C12 ----------------------------------- *)
\* Position (component, layer, block) x comes before position y.
Earlier(x, y) ==
    \/ x.a < y.a
    \/ x.a = y.a /\ x.i < y.i
    \/ x.a = y.a /\ x.i = y.i /\ x.blk < y.blk

\* C12: the six blocks use six different tags; the send leg and the receive
\* leg of a block use the same tag, and the same count and datatype; the
\* message a waiting receive matches was sent by the peer in the same
\* block, layer and component and has the length the receive expects, also
\* on a channel that carries the messages of two directions; every message
\* in flight still has its receive ahead of it (none was passed over); and
\* when all processes have returned no message is left.
C12_PairsMatch ==
    /\ \A k1, k2 \in Blocks : k1 # k2 => sendtag(k1) # sendtag(k2)
    /\ \A k \in Blocks : sendtag(k) = recvtag(k)
    /\ \A p \in Procs, k \in Blocks : SendType(p, k) = RecvType(p, k)
    /\ \A p \in Procs :
          (pc[p] = "wait" /\ source(p, blk[p]) # MPI_PROC_NULL) =>
              LET q   == net[<<source(p, blk[p]), p>>]
                  pos == FirstMatch(q, recvtag(blk[p]))
              IN  pos # 0 =>
                    /\ q[pos].a = a[p] /\ q[pos].i = i[p] /\ q[pos].blk = blk[p]
                    /\ Len(q[pos].data) = Len(TypeMap(RecvType(p, blk[p])))
    /\ \A s \in Procs, d \in Procs :
          \A n \in 1 .. Len(net[<<s, d>>]) :
              LET m   == net[<<s, d>>][n]
                  pos == [a |-> a[d], i |-> i[d], blk |-> blk[d]]
              IN  /\ source(d, m.blk) = s
                  /\ pc[d] # "done"
                  /\ pc[d] \in {"sendrecv", "wait"} =>
                        (Earlier(pos, m) \/ pos = [a |-> m.a, i |-> m.i, blk |-> m.blk])
                  /\ pc[d] \in {"scatter", "type_free"} => a[d] < m.a
                  /\ pc[d] \in {"gather", "type_commit"} => a[d] <= m.a
    /\ Done => \A c \in DOMAIN net : net[c] = <<>>

\* Two ranks, each the west and the east neighbor of the other: rank 1 waits
\* in the eastward exchange while the channel from rank 0 holds the message
\* of that exchange (tag 333) followed by the one of the westward exchange
\* (tag 444).
C12_Witness ==
    /\ NProcs = 2 /\ nbr_WEST(1) = 0 /\ nbr_EAST(1) = 0
    /\ pc[1] = "wait" /\ blk[1] = 3
    /\ Len(net[<<0, 1>>]) = 2
    /\ net[<<0, 1>>][1].tag = 333 /\ net[<<0, 1>>][2].tag = 444

(* ------------------------------ C13 ----------------------------------- *)
\* The scratch array of p is allocated.
ScratchLive(p) == PDF3d[p] # <<>>

\* C13 as stated: a process that has returned has allocated Q times and
\* released Q times, and no scratch array is live at the start of a
\* component after the first or after the return.
C13_AllocPerComponent ==
    \A p \in Procs :
        /\ pc[p] = "done" =>
              /\ executed[p].new = Q /\ executed[p].delete = Q
              /\ ~ScratchLive(p)
        /\ (pc[p] = "gather" /\ a[p] > 0) => ~ScratchLive(p)

\* C13: the scratch array is allocated once per call, before the first
\* component, holds MXP*MYP*MZP elements, stays live through every component
\* (also between the end of one and the start of the next) and is released
\* once, after the last; none is live after the return.
C13_AllocPerCall ==
    \A p \in Procs :
        /\ executed[p].new = (IF pc[p] = "new" THEN 0 ELSE 1)
        /\ executed[p].delete = (IF pc[p] = "done" THEN 1 ELSE 0)
        /\ ScratchLive(p) <=> pc[p] \notin {"new", "done"}
        /\ ScratchLive(p) => DOMAIN PDF3d[p] = 0 .. (PADDED_VOXELS - 1)

\* With two components the process is at the gather of the second one: the
\* scratch array of the single allocation is still live.
C13_Witness ==
    \E p \in Procs :
        /\ Q = 2 /\ pc[p] = "gather" /\ a[p] = 1
        /\ ScratchLive(p) /\ executed[p].new = 1 /\ executed[p].delete = 0

(* ------------------------------ C14 ----------------------------------- *)
\* The X-normal and the Y-normal datatype of p are live (committed and not
\* yet freed).
XLive(p) == stridex[p] # NullType
YLive(p) == stridey[p] # NullType

\* C14: the two datatypes are committed once per component, whatever the
\* number of ghost layers (a builds completed at the gather of component a,
\* a+1 from its first exchange to its release, Q at the return); both are
\* live in every paired exchange, which is where they are used, and until
\* the release that follows the scatter of the component; neither is live
\* at the gather of the next component or at the return; and the builds
\* exceed the releases by one while they are live and by none otherwise, so
\* that no second datatype of a kind is ever live.
C14_DescriptorLifetime ==
    \A p \in Procs :
        LET e    == executed[p]
            held == pc[p] \in {"sendrecv", "wait", "scatter", "type_free"}
        IN  /\ XLive(p) <=> held
            /\ YLive(p) <=> held
            /\ held => stridex[p] = StrideXType /\ stridey[p] = StrideYType
            /\ e.type_commit - e.type_free = (IF held THEN 1 ELSE 0)
            /\ pc[p] \in {"gather", "type_commit"} => e.type_commit = a[p]
            /\ held => e.type_commit = a[p] + 1
            /\ pc[p] = "type_free" => e.scatter = a[p] + 1
            /\ pc[p] \in {"delete", "done"} => e.type_commit = Q /\ e.type_free = Q

\* Two ghost layers, two components: in the last paired exchange of the
\* second ghost layer of the second component the datatypes are live and
\* have been built twice, once per component.
C14_Witness ==
    \E p \in Procs :
        /\ nn = 2 /\ Q = 2
        /\ pc[p] = "wait" /\ a[p] = 1 /\ i[p] = 1 /\ blk[p] = 6
        /\ XLive(p) /\ YLive(p)
        /\ executed[p].type_commit = 2 /\ executed[p].type_free = 1

(* ------------------------------ C15 ----------------------------------- *)
\* The axis block k exchanges along, and the ghost layers of an axis.
BlockAxis(k) == CASE k \in {1, 2} -> 3 [] k \in {3, 4} -> 1 [] k \in {5, 6} -> 2
Ghost(ax) == Padded(ax) \ Interior(ax)

PaddedVoxels == Padded(1) \X Padded(2) \X Padded(3)

\* C16: right after the gather of component a, for every padded voxel
\* (x,y,z), ghost voxels included, the scratch element x + y*MXP + z*MXP*MYP
\* holds the field element a + Q*(x + y*MXP + z*MXP*MYP); the padded voxels
\* address the elements of the scratch array one to one, so each is written
\* once; scattering the scratch array as gathered gives the field back
\* unchanged; and right after the scatter of component a every scratch
\* element is found at the same field position.
C16_GatherScatterInverse ==
    \A p \in Procs :
        /\ pc[p] = "type_commit" =>
              /\ \A c \in PaddedVoxels :
                    PDF3d[p][c[1] + c[2] * MXP + c[3] * MXP * MYP]
                      = PDF4d[p][a[p] + Q * (c[1] + c[2] * MXP + c[3] * MXP * MYP)]
              /\ {index_3d(c[1], c[2], c[3]) : c \in PaddedVoxels} = DOMAIN PDF3d[p]
              /\ Cardinality(DOMAIN PDF3d[p]) = Cardinality(PaddedVoxels)
              /\ ScatterResult(p) = PDF4d[p]
        /\ pc[p] = "type_free" =>
              \A c \in PaddedVoxels :
                  PDF4d[p][a[p] + Q * (c[1] + c[2] * MXP + c[3] * MXP * MYP)]
                    = PDF3d[p][c[1] + c[2] * MXP + c[3] * MXP * MYP]

\* Two components, MX = MY = MZ = 2, nn = 2: the second component has just
\* been gathered, and the scratch element of the ghost voxel (5,4,0) holds
\* the field element of that voxel and component.
C16_Witness ==
    \E p \in Procs :
        /\ Q = 2 /\ nn = 2 /\ MX = 2 /\ MY = 2 /\ MZ = 2
        /\ pc[p] = "type_commit" /\ a[p] = 1
        /\ PDF3d[p][5 + 4 * 6] = PDF4d[p][1 + 2 * (5 + 4 * 6)]
        /\ PDF4d[p][1 + 2 * (5 + 4 * 6)] # PDF4d[p][2 * (5 + 4 * 6)]

(* ------------------------------ C17 ----------------------------------- *)
\* C17: the bottom/top exchanges transfer no_xy items of MPI_DOUBLE; such a
\* transfer starting at index_3d(0,0,z) addresses, for every z in 0..MZP-1,
\* exactly the MXP*MYP cells index_3d(x,y,z) of layer z, each once, and no
\* cell of another layer; the address the bottom/top exchanges send from and
\* receive into is index_3d(0,0,z) of their layer.
C17_ZSlabContiguous ==
    \A p \in Procs :
        pc[p] \in {"sendrecv", "wait"} =>
            /\ \A k \in {1, 2} :
                  /\ SendType(p, k) = Contiguous(no_xy)
                  /\ RecvType(p, k) = Contiguous(no_xy)
                  /\ send(k, i[p]) = index_3d(0, 0, SendLayer(k, i[p]))
                  /\ recv(k, i[p]) = index_3d(0, 0, RecvLayer(k, i[p]))
            /\ \A z \in Padded(3) :
                  LET sel == Selected(SendType(p, 1), index_3d(0, 0, z))
                  IN  /\ sel = {index_3d(x, y, z) : x \in Padded(1), y \in Padded(2)}
                      /\ Cardinality(sel) = MXP * MYP
                      /\ Len(TypeMap(SendType(p, 1))) = MXP * MYP
                      /\ \A n \in sel : n \div (MXP * MYP) = z

\* MX = 4, MY = 3, MZ = 2, nn = 1: the process is inside the exchange that
\* sends its top interior layer z = 2, the 30 cells from 60 to 89.
C17_Witness ==
    /\ cfg.M = <<4, 3, 2>> /\ nn = 1
    /\ pc[0] = "wait" /\ blk[0] = 1
    /\ Selected(SendType(0, 1), send(1, i[0])) = 60 .. 89

(* ------------------------------ C18 ----------------------------------- *)
\* Every process has a neighbor on all six sides.
FullyPeriodic ==
    \A p \in Procs, ax \in Axes : Lo(p, ax) # MPI_PROC_NULL /\ Hi(p, ax) # MPI_PROC_NULL

\* On which side of axis ax the coordinate c lies: -1 in the low ghost
\* layers, 1 in the high ghost layers, 0 in the interior.
Side(ax, c) == IF c < nn THEN -1 ELSE IF c >= nn + Ext(ax) THEN 1 ELSE 0

\* The process whose interior the voxel c of p's padded array lies in, and
\* the index of the voxel there.
Owner(p, c) ==
    CartShift(CartShift(CartShift(p, 1, Side(1, c[1])), 2, Side(2, c[2])), 3, Side(3, c[3]))
OwnerVoxel(c) ==
    index_3d(c[1] - Side(1, c[1]) * MX, c[2] - Side(2, c[2]) * MY, c[3] - Side(3, c[3]) * MZ)

\* The ghost voxels on an edge or at a corner: in the ghost range of two or
\* three axes.
EdgeOrCorner == {c \in PaddedVoxels : Cardinality({ax \in Axes : Side(ax, c[ax]) # 0}) >= 2}

\* C18: in a fully periodic topology with MX, MY, MZ >= nn, when all
\* processes have returned, every edge and corner ghost voxel of every
\* process holds, in every component, the value the voxel at the wrapped
\* position held in the interior of the diagonal neighbor at entry.
C18_EdgesAndCorners ==
    (Done /\ FullyPeriodic /\ \A ax \in Axes : Ext(ax) >= nn) =>
        \A p \in Procs, comp \in 0 .. (Q - 1), c \in EdgeOrCorner :
            Now(p, comp, index_3d(c[1], c[2], c[3])) = Before(Owner(p, c), comp, OwnerVoxel(c))

\* Two ranks along X in a fully periodic topology, MX = MY = MZ = 2, nn = 2:
\* all have returned, and the corner ghost voxel (0,0,0) of rank 0 holds what
\* the interior voxel (2,2,2) of rank 1 held at entry.
C18_Witness ==
    /\ Done /\ FullyPeriodic /\ NProcs = 2
    /\ nn = 2 /\ cfg.M = <<2, 2, 2>>
    /\ <<0, 0, 0>> \in EdgeOrCorner /\ Owner(0, <<0, 0, 0>>) = 1
    /\ Now(0, 0, index_3d(0, 0, 0)) = Before(1, 0, index_3d(2, 2, 2))
    /\ Now(0, 0, index_3d(0, 0, 0)) # Before(0, 0, index_3d(0, 0, 0))

(* ------------------------------ C19 ----------------------------------- *)
\* The ghost layer and the block of the t-th paired exchange of a component
\* (t in 1 .. 6*nn).
LayerOf(t) == (t - 1) \div 6
BlockOf(t) == ((t - 1) % 6) + 1

\* Voxel c with its coordinate along axis ax replaced by lay.
Moved(c, ax, lay) == [c EXCEPT ![ax] = lay]

\* ValueBefore(p, comp, c, t): what voxel c of component comp of process p
\* holds before its t-th paired exchange, as a function of the fields at
\* entry only: the value at entry if none of the exchanges 1 .. t-1 received
\* into c, and otherwise what the source of the last one that did held,
\* before that same exchange, in the voxel of the slab it sent.
RECURSIVE ValueBefore(_, _, _, _)
ValueBefore(p, comp, c, t) ==
    IF t <= 1 THEN Before(p, comp, index_3d(c[1], c[2], c[3]))
    ELSE LET k  == BlockOf(t - 1)
             l  == LayerOf(t - 1)
             ax == BlockAxis(k)
         IN  IF source(p, k) # MPI_PROC_NULL /\ c[ax] = RecvLayer(k, l)
             THEN ValueBefore(source(p, k), comp, Moved(c, ax, SendLayer(k, l)), t - 1)
             ELSE ValueBefore(p, comp, c, t - 1)

\* C19: whatever the interleaving, a process that has returned holds in
\* every voxel of every component the one value determined by the fields at
\* entry and the topology.
C19_ScheduleIndependent ==
    \A p \in Procs :
        pc[p] = "done" =>
            \A comp \in 0 .. (Q - 1), c \in PaddedVoxels :
                Now(p, comp, index_3d(c[1], c[2], c[3])) = ValueBefore(p, comp, c, 6 * nn + 1)

\* The periodic ring of three ranks with buffered sends: rank 0 has
\* returned, with its west ghost layer changed, while rank 1 is still in a
\* paired exchange.
C19_Witness ==
    /\ NProcs = 3 /\ cfg.mode = "eager" /\ cfg.periods[1]
    /\ pc[0] = "done" /\ pc[1] \in {"sendrecv", "wait"}
    /\ Now(0, 0, index_3d(0, 1, 1)) = Before(2, 0, index_3d(1, 1, 1))

(* ------------------------------ C20 ----------------------------------- *)
\* The addresses the send leg and the receive leg of block k of process p
\* touch at ghost layer l.
SendAddresses(p, k, l) == Selected(SendType(p, k), send(k, l))
RecvAddresses(p, k, l) == Selected(RecvType(p, k), recv(k, l))

\* C20: in every paired exchange (every component, ghost layer and block is
\* passed through) the addresses of the send leg and of the receive leg lie
\* in 0..MXP*MYP*MZP-1, the scratch array; and in the gather and the scatter of
\* every component the scratch address of every padded voxel lies in the
\* scratch array and its field address in 0..MXP*MYP*MZP*Q-1, the field.
C20_AddressesInBounds ==
    \A p \in Procs :
        /\ pc[p] \in {"sendrecv", "wait"} =>
              /\ DOMAIN PDF3d[p] = 0 .. (MXP * MYP * MZP - 1)
              /\ SendAddresses(p, blk[p], i[p]) \subseteq 0 .. (MXP * MYP * MZP - 1)
              /\ RecvAddresses(p, blk[p], i[p]) \subseteq 0 .. (MXP * MYP * MZP - 1)
        /\ pc[p] \in {"gather", "scatter"} =>
              /\ DOMAIN PDF4d[p] = 0 .. (MXP * MYP * MZP * Q - 1)
              /\ \A c \in PaddedVoxels :
                    /\ index_3d(c[1], c[2], c[3]) \in DOMAIN PDF3d[p]
                    /\ index_4d(a[p], index_3d(c[1], c[2], c[3])) \in DOMAIN PDF4d[p]

\* Two ghost layers, two components: in the last block of the last ghost
\* layer of the last component the receive leg reaches the last element of
\* the scratch array.
C20_Witness ==
    \E p \in Procs :
        /\ nn = 2 /\ Q = 2
        /\ pc[p] = "wait" /\ a[p] = 1 /\ i[p] = 1 /\ blk[p] = 6
        /\ (PADDED_VOXELS - 1) \in RecvAddresses(p, 6, 1)
        /\ index_4d(1, PADDED_VOXELS - 1) = PADDED_VOXELS * Q - 1

(* ------------------------------ C21 ----------------------------------- *)
\* With the "unique" fill a value is 100000 * (rank + 1) + m, m being the
\* element of PDF4d it was read from at entry: m % Q is its component.
ComponentOf(v) == IF v = Garbage THEN -1 ELSE (v % 100000) % Q

\* What one step of process p, which handles component a[p], may do to the
\* field, to the scratch array and to the messages in flight:
\*   an element of PDF4d that changes is an element of component a[p] and
\*   receives a value of component a[p];
\*   when the gather or a receive has changed PDF3d, every element of
\*   PDF3d is a value of component a[p];
\*   a message p has put on the wire carries values of component a[p] only.
WritesOwnComponent(p) ==
    /\ PDF4d'[p] # PDF4d[p] =>
          \A m \in DOMAIN PDF4d[p] :
             PDF4d'[p][m] # PDF4d[p][m] =>
                m % Q = a[p] /\ ComponentOf(PDF4d'[p][m]) = a[p]
    /\ (PDF3d'[p] # PDF3d[p] /\ pc[p] \in {"gather", "wait"}) =>
          \A x \in DOMAIN PDF3d'[p] : ComponentOf(PDF3d'[p][x]) = a[p]
    /\ \A d \in Procs :
          Len(net'[<<p, d>>]) > Len(net[<<p, d>>]) =>
             LET msg == net'[<<p, d>>][Len(net'[<<p, d>>])]
             IN  \A e \in 1 .. Len(msg.data) : ComponentOf(msg.data[e]) = a[p]

\* C21: components do not mix.  In every step of every process, whatever
\* is written to the field is written to an element of the component the
\* process handles, and whatever is gathered, sent, received or scattered
\* is a value read at entry from that same component (on some process).
C21_ComponentsIsolated == [][\A p \in Procs : WritesOwnComponent(p)]_vars

\* The X-periodic pair with two components: rank 1 handles component 1 and
\* waits in its first exchange along X while the slab rank 0 sent it, all
\* of component 1, is in flight; the west ghost layer of component 0 of
\* rank 1 already holds a value of component 0 of rank 0.
C21_Witness ==
    /\ NProcs = 2 /\ Q = 2 /\ nn = 1 /\ cfg.M = <<1, 1, 1>> /\ cfg.fill = "unique"
    /\ pc[1] = "wait" /\ a[1] = 1 /\ blk[1] = 3
    /\ Len(net[<<0, 1>>]) > 0
    /\ net[<<0, 1>>][1].a = 1
    /\ \E e \in 1 .. Len(net[<<0, 1>>][1].data) :
          net[<<0, 1>>][1].data[e] = Before(0, 1, index_3d(1, 1, 1))
    /\ Now(1, 0, index_3d(0, 1, 1)) = Before(0, 0, index_3d(1, 1, 1))

(* ------------------------------ C22 ----------------------------------- *)
\* Process p has returned from its second call.
ReturnedTwice(p) == pc[p] = "done" /\ executed[p]["new"] = 2

\* C22: the exchange is idempotent.  A process that has returned from its
\* second call holds, in every element of its field, what it held when it
\* returned from the first.
C22_Idempotent ==
    \A p \in Procs : ReturnedTwice(p) => PDF4d[p] = returned[p]

\* Two ranks that are each other's neighbor along X, two ghost layers around
\* one voxel: both have returned from their second call, and the first call
\* had changed both west ghost layers of rank 0.
C22_Witness ==
    /\ NProcs = 2 /\ nn = 2 /\ cfg.M = <<1, 1, 1>>
    /\ \A p \in Procs : ReturnedTwice(p)
    /\ returned[0][index_4d(0, index_3d(0, 2, 2))] # Before(0, 0, index_3d(0, 2, 2))
    /\ returned[0][index_4d(0, index_3d(1, 2, 2))] # Before(0, 0, index_3d(1, 2, 2))
====
